---- MODULE Spec2Model ----
(***************************************************************************)
(* A model of src/src/mdl.py, the MDL (Muddle) interpreter after Norvig's  *)
(* Lispy: tokenize, read_from_tokens/atom, Env, Procedure and the second   *)
(* definition of eval (line 201), which is the one bound to the name eval  *)
(* when a program is run (line 260) or read by repl (line 144).            *)
(*                                                                         *)
(* Text is a sequence of one-character strings, a token is a non-empty     *)
(* sequence of characters.  Python values are tagged records:              *)
(*   [t |-> "int", n]      [t |-> "float", sp, m, e]   [t |-> "sym", s]    *)
(*   [t |-> "list", xs]    [t |-> "bool", b]           [t |-> "none"]      *)
(*   [t |-> "builtin", name]      [t |-> "proc", parms, body, env]         *)
(* An Env object is a record of the heap, named by its index; outer = 0    *)
(* is Python's None.                                                       *)
(***************************************************************************)
EXTENDS Integers, Sequences, FiniteSets, TLC

VARIABLES
    arg,      \* the argument of the call being run: a text or a token list
    tokens,   \* the token list (tokenize's result, read_from_tokens' argument)
    out,      \* the result of the call: [exc |-> name] or [exc |-> "", val |-> v]
    heap,     \* the Env objects alive, heap[1] is global_env
    stack,    \* the activations of eval, innermost last
    ctl,      \* what the innermost activation does next
    log,      \* history: every eval(x, env) entered for the current program
    nforms    \* the number of programs read so far

vars == <<arg, tokens, out, heap, stack, ctl, log, nforms>>

(***************************************************************************)
(* Bounds of the model.                                                    *)
(***************************************************************************)
MaxTextLen == 4     \* texts given to tokenize: every text up to this length
MaxTokens == 5      \* token lists given to read_from_tokens: up to this length
MaxForms == 2       \* programs evaluated one after the other in one global_env
MaxEnvs == 8        \* Env objects created by procedure calls, global_env included

(***************************************************************************)
(* Characters.                                                             *)
(***************************************************************************)
Whitespace == {" ", "\t", "\n"}
Digits == {"0", "1", "2", "3", "4", "5", "6", "7", "8", "9"}

DigitVal(c) ==
    CASE c = "0" -> 0 [] c = "1" -> 1 [] c = "2" -> 2 [] c = "3" -> 3
      [] c = "4" -> 4 [] c = "5" -> 5 [] c = "6" -> 6 [] c = "7" -> 7
      [] c = "8" -> 8 [] c = "9" -> 9

RECURSIVE Concat(_)
Concat(cs) == IF cs = <<>> THEN "" ELSE cs[1] \o Concat(Tail(cs))

(***************************************************************************)
(* tokenize (lines 16-22).                                                 *)
(***************************************************************************)
\* line 18, the tokenizer of Lispy: only the parentheses are set apart
OldBrackets == <<"(", ")">>

brackets == <<"(", ")", "<", ">">>

\* str.replace(bracket, ' ' + bracket + ' '), by halves
RECURSIVE Replace(_, _)
Replace(s, bracket) ==
    IF s = <<>> THEN <<>>
    ELSE IF Len(s) = 1
         THEN (IF s[1] = bracket THEN <<" ", bracket, " ">> ELSE s)
         ELSE Replace(SubSeq(s, 1, Len(s) \div 2), bracket)
              \o Replace(SubSeq(s, Len(s) \div 2 + 1, Len(s)), bracket)

\* the for loop of lines 20-21
RECURSIVE ReplaceAll(_, _)
ReplaceAll(s, bs) ==
    IF bs = <<>> THEN s ELSE ReplaceAll(Replace(s, bs[1]), Tail(bs))

\* str.split(): the maximal runs of characters that are not whitespace
Split(s) ==
    LET starts == {i \in 1..Len(s) : s[i] \notin Whitespace /\ (i = 1 \/ s[i - 1] \in Whitespace)}
        end(i) == CHOOSE j \in i..Len(s) :
                      /\ \A k \in i..j : s[k] \notin Whitespace
                      /\ (j = Len(s) \/ s[j + 1] \in Whitespace)
        start(n) == CHOOSE i \in starts : Cardinality({j \in starts : j < i}) = n - 1
    IN  [n \in 1..Cardinality(starts) |-> SubSeq(s, start(n), end(start(n)))]

tokenize(s) == Split(ReplaceAll(s, brackets))

(***************************************************************************)
(* atom (lines 55-61): int(token), else float(token), else Symbol(token).  *)
(***************************************************************************)
IsDigits(cs) == cs # <<>> /\ \A i \in 1..Len(cs) : cs[i] \in Digits

Unsigned(cs) == IF cs # <<>> /\ cs[1] \in {"+", "-"} THEN Tail(cs) ELSE cs
Sign(cs) == IF cs # <<>> /\ cs[1] = "-" THEN -1 ELSE 1

RECURSIVE DigitsVal(_, _)
DigitsVal(cs, acc) ==
    IF cs = <<>> THEN acc ELSE DigitsVal(Tail(cs), 10 * acc + DigitVal(cs[1]))

\* int(token) succeeds: an optional sign, then decimal digits
IsInt(cs) == IsDigits(Unsigned(cs))
IntVal(cs) == Sign(cs) * DigitsVal(Unsigned(cs), 0)

Lower(c) ==
    CASE c = "I" -> "i" [] c = "N" -> "n" [] c = "F" -> "f" [] c = "A" -> "a"
      [] c = "T" -> "t" [] c = "Y" -> "y" [] c = "E" -> "e" [] OTHER -> c

LowerAll(cs) == [i \in 1..Len(cs) |-> Lower(cs[i])]

\* the position of the first character of cs that is in set, 0 if none
FirstIn(cs, set) ==
    IF \E i \in 1..Len(cs) : cs[i] \in set
    THEN CHOOSE i \in 1..Len(cs) : cs[i] \in set /\ \A j \in 1..(i - 1) : cs[j] \notin set
    ELSE 0

\* the mantissa and the exponent part of an unsigned, lower-case literal
Mantissa(cs) == IF FirstIn(cs, {"e"}) = 0 THEN cs ELSE SubSeq(cs, 1, FirstIn(cs, {"e"}) - 1)
ExpPart(cs) == IF FirstIn(cs, {"e"}) = 0 THEN <<>> ELSE SubSeq(cs, FirstIn(cs, {"e"}) + 1, Len(cs))
HasExp(cs) == FirstIn(cs, {"e"}) # 0

IntPart(ms) == IF FirstIn(ms, {"."}) = 0 THEN ms ELSE SubSeq(ms, 1, FirstIn(ms, {"."}) - 1)
FracPart(ms) == IF FirstIn(ms, {"."}) = 0 THEN <<>> ELSE SubSeq(ms, FirstIn(ms, {"."}) + 1, Len(ms))

IsMantissa(ms) ==
    /\ \A i \in 1..Len(IntPart(ms)) : IntPart(ms)[i] \in Digits
    /\ \A i \in 1..Len(FracPart(ms)) : FracPart(ms)[i] \in Digits
    /\ Len(IntPart(ms)) + Len(FracPart(ms)) > 0

FloatWords == {<<"i", "n", "f">>, <<"i", "n", "f", "i", "n", "i", "t", "y">>, <<"n", "a", "n">>}

\* float(token) succeeds: a decimal literal with an optional exponent, inf, nan
IsFloat(cs) ==
    LET u == LowerAll(Unsigned(cs)) IN
    \/ u \in FloatWords
    \/ /\ IsMantissa(Mantissa(u))
       /\ HasExp(u) => IsInt(ExpPart(u))

\* a finite float is m * 10^e with m not a multiple of 10, or 0
RECURSIVE Normal(_, _)
Normal(m, e) ==
    IF m = 0 THEN [t |-> "float", sp |-> "fin", m |-> 0, e |-> 0]
    ELSE IF m % 10 = 0 THEN Normal(m \div 10, e + 1)
    ELSE [t |-> "float", sp |-> "fin", m |-> m, e |-> e]

FloatVal(cs) ==
    LET u == LowerAll(Unsigned(cs)) IN
    IF u = <<"n", "a", "n">> THEN [t |-> "float", sp |-> "nan", m |-> 0, e |-> 0]
    ELSE IF u \in FloatWords THEN [t |-> "float", sp |-> "inf", m |-> Sign(cs), e |-> 0]
    ELSE LET ms == Mantissa(u)
             digs == IntPart(ms) \o FracPart(ms)
             ex == IF HasExp(u) THEN IntVal(ExpPart(u)) ELSE 0
         IN  Normal(Sign(cs) * DigitsVal(digs, 0), ex - Len(FracPart(ms)))

Symbol(cs) == [t |-> "sym", s |-> Concat(cs)]

atom(token) ==
    IF IsInt(token) THEN [t |-> "int", n |-> IntVal(token)]
    ELSE IF IsFloat(token) THEN FloatVal(token)
    ELSE Symbol(token)

(***************************************************************************)
(* read_from_tokens (lines 37-51).  The result is [exc, exp, rest]: the    *)
(* exception raised ("" for none), the expression returned and the token   *)
(* list as the call leaves it (list.pop(0) mutates the caller's list).     *)
(***************************************************************************)
LP == <<"(">>
RP == <<")">>

List(xs) == [t |-> "list", xs |-> xs]
NoneVal == [t |-> "none"]
Raised(e, rest) == [exc |-> e, exp |-> NoneVal, rest |-> rest]

\* lines 46-47 without the pop of line 46
CloseListKeep(toks, L) == [exc |-> "", exp |-> List(L), rest |-> toks]

\* lines 46-47: pop off ')' and return L
CloseList(toks, L) == [exc |-> "", exp |-> List(L), rest |-> Tail(toks)]

RECURSIVE read_from_tokens(_), ReadList(_, _)
read_from_tokens(toks) ==
    IF Len(toks) = 0 THEN Raised("SyntaxError", toks)
    ELSE LET token == Head(toks)
             rest == Tail(toks)
         IN  IF token = LP THEN ReadList(rest, <<>>)
             ELSE IF token = RP THEN Raised("SyntaxError", rest)
             ELSE [exc |-> "", exp |-> atom(token), rest |-> rest]

\* the while loop of lines 44-47; tokens[0] of an empty list is an IndexError
ReadList(toks, L) ==
    IF toks = <<>> THEN Raised("IndexError", toks)
    ELSE IF toks[1] # RP
         THEN LET r == read_from_tokens(toks)
              IN  IF r.exc # "" THEN r ELSE ReadList(r.rest, Append(L, r.exp))
         ELSE CloseList(toks, L)

(***************************************************************************)
(* Inputs of the tokenizer and of the reader.                              *)
(***************************************************************************)
TextChars == {"(", ")", "<", ">", " ", "\n", "=", "a"}

RECURSIVE SeqsUpTo(_, _)
SeqsUpTo(S, n) ==
    IF n = 0 THEN {<<>>}
    ELSE LET shorter == SeqsUpTo(S, n - 1)
         IN  shorter \cup {Append(s, c) : s \in {q \in shorter : Len(q) = n - 1}, c \in S}

\* "(>= a b)"
TextGE == <<"(", ">", "=", " ", "a", " ", "b", ")">>
\* "(<= a b)"
TextLE == <<"(", "<", "=", " ", "a", " ", "b", ")">>

TextInputs == SeqsUpTo(TextChars, MaxTextLen) \cup {TextGE, TextLE}

TokenAlphabet == {LP, RP, <<"a">>, <<"0", "1">>}
TokenInputs == SeqsUpTo(TokenAlphabet, MaxTokens)

Idle == [mode |-> "idle"]

InitTok ==
    /\ arg \in TextInputs
    /\ tokens = <<>>
    /\ out = [exc |-> "pending"]
    /\ heap = <<>> /\ stack = <<>> /\ ctl = Idle /\ log = <<>> /\ nforms = 0

\* tokens = tokenize(text), then parse's read_from_tokens(tokens) (line 35)
Tokenize ==
    /\ out.exc = "pending"
    /\ tokens' = tokenize(arg)
    /\ out' = [exc |-> "tokenized"]
    /\ UNCHANGED <<arg, heap, stack, ctl, log, nforms>>

Parse ==
    /\ out.exc = "tokenized"
    /\ LET r == read_from_tokens(tokens)
       IN  /\ tokens' = r.rest
           /\ out' = [exc |-> r.exc, val |-> r.exp]
    /\ UNCHANGED <<arg, heap, stack, ctl, log, nforms>>

NextTok == Tokenize \/ Parse

SpecTok == InitTok /\ [][NextTok]_vars

\* read_from_tokens called on a token list of the caller's
InitRead ==
    /\ arg \in TokenInputs
    /\ tokens = arg
    /\ out = [exc |-> "tokenized"]
    /\ heap = <<>> /\ stack = <<>> /\ ctl = Idle /\ log = <<>> /\ nforms = 0

NextRead == Parse

SpecRead == InitRead /\ [][NextRead]_vars

(***************************************************************************)
(* Env (lines 181-188).                                                    *)
(***************************************************************************)
Min(a, b) == IF a < b THEN a ELSE b

\* dict.update(zip(parms, args)): zip stops at the shorter of the two, and a
\* name repeated in parms keeps the last of its values
Zip(parms, args) ==
    LET n == Min(Len(parms), Len(args))
    IN  [k \in {parms[i].s : i \in 1..n} |->
            args[CHOOSE i \in 1..n : /\ parms[i].s = k
                                     /\ \A j \in (i + 1)..n : parms[j].s # k]]

Env(parms, args, outer) == [vars |-> Zip(parms, args), outer |-> outer]

\* Env.find: the index of the innermost Env of the chain of e that holds var;
\* 0 stands for the AttributeError of self.outer.find when outer is None
RECURSIVE find(_, _, _)
find(h, e, var) ==
    IF var \in DOMAIN h[e].vars THEN e
    ELSE IF h[e].outer = 0 THEN 0
    ELSE find(h, h[e].outer, var)

\* d[k] = v on the dict of Env e
Store(h, e, k, v) ==
    [h EXCEPT ![e].vars = [n \in DOMAIN h[e].vars \cup {k} |->
                              IF n = k THEN v ELSE h[e].vars[n]]]

(***************************************************************************)
(* standard_env (lines 83-112): a handful of its entries.  vars(math) and  *)
(* the entries that no program of the model names are left out.            *)
(***************************************************************************)
Builtin(name) == [t |-> "builtin", name |-> name]

global_env ==
    [vars |-> ("+" :> Builtin("add") @@ "-" :> Builtin("sub") @@ "*" :> Builtin("mul")
               @@ ">" :> Builtin("gt") @@ "<" :> Builtin("lt") @@ ">=" :> Builtin("ge")
               @@ "<=" :> Builtin("le") @@ "=" :> Builtin("eq")
               @@ "append" :> Builtin("add") @@ "begin" :> Builtin("begin")
               @@ "car" :> Builtin("car") @@ "equal?" :> Builtin("eq")
               @@ "list" :> Builtin("list") @@ "not" :> Builtin("not_")),
     outer |-> 0]

\* Python's truth value of a value (the test of line 212, op.not_)
Truthy(v) ==
    CASE v.t = "int" -> v.n # 0
      [] v.t = "float" -> ~(v.sp = "fin" /\ v.m = 0)
      [] v.t = "bool" -> v.b
      [] v.t = "none" -> FALSE
      [] v.t = "list" -> v.xs # <<>>
      [] v.t = "sym" -> v.s # ""
      [] OTHER -> TRUE

IntV(n) == [t |-> "int", n |-> n]
BoolV(b) == [t |-> "bool", b |-> b]
Ok(v) == [exc |-> "", val |-> v]
Exc(e) == [exc |-> e, val |-> NoneVal]

Numeric(v) == v.t \in {"int", "float", "bool"}

\* the binary operators of module operator, on two ints; on other operands
\* only the combinations for which Python raises TypeError are given a result
Binary(name, a, b) ==
    CASE a.t = "int" /\ b.t = "int" ->
            Ok(CASE name = "add" -> IntV(a.n + b.n)
                 [] name = "sub" -> IntV(a.n - b.n)
                 [] name = "mul" -> IntV(a.n * b.n)
                 [] name = "gt" -> BoolV(a.n > b.n)
                 [] name = "lt" -> BoolV(a.n < b.n)
                 [] name = "ge" -> BoolV(a.n >= b.n)
                 [] name = "le" -> BoolV(a.n <= b.n)
                 [] name = "eq" -> BoolV(a.n = b.n))
      [] name = "add" /\ a.t = "list" /\ b.t = "list" -> Ok(List(a.xs \o b.xs))
      [] name \in {"add", "sub", "mul"} /\ ~(Numeric(a) /\ Numeric(b))
         /\ {a.t, b.t} \cap {"none", "proc", "builtin"} # {} -> Exc("TypeError")

\* proc(*args) for a built-in of standard_env
CallBuiltin(name, args) ==
    CASE name \in {"add", "sub", "mul", "gt", "lt", "ge", "le", "eq"} ->
            IF Len(args) # 2 THEN Exc("TypeError") ELSE Binary(name, args[1], args[2])
      [] name = "begin" ->
            IF args = <<>> THEN Exc("IndexError") ELSE Ok(args[Len(args)])
      [] name = "list" -> Ok(List(args))
      [] name = "not_" ->
            IF Len(args) # 1 THEN Exc("TypeError") ELSE Ok(BoolV(~Truthy(args[1])))
      [] name = "car" ->
            IF Len(args) # 1 THEN Exc("TypeError")
            ELSE CASE args[1].t = "list" ->
                        IF args[1].xs = <<>> THEN Exc("IndexError") ELSE Ok(args[1].xs[1])
                   [] args[1].t \in {"int", "float", "bool", "none", "proc", "builtin"} ->
                        Exc("TypeError")

(***************************************************************************)
(* The programs the model runs (line 256 is one such text).                *)
(***************************************************************************)
\* (begin (define x 5) x)
ProgRoundTrip == <<"(", "b", "e", "g", "i", "n", " ", "(", "d", "e", "f", "i", "n", "e", " ", "x", " ", "5", ")", " ", "x", ")">>
\* (if (> 3 2) 1 2)
ProgIf == <<"(", "i", "f", " ", "(", ">", " ", "3", " ", "2", ")", " ", "1", " ", "2", ")">>
\* (begin (if 0 (define y 1) (define z 2)) z)
ProgIfEffect == <<"(", "b", "e", "g", "i", "n", " ", "(", "i", "f", " ", "0", " ", "(", "d", "e", "f", "i", "n", "e", " ", "y", " ", "1", ")", " ", "(", "d", "e", "f", "i", "n", "e", " ", "z", " ", "2", ")", ")", " ", "z", ")">>
\* (if 0.0 (quote p) (quote 01))
ProgIfFloat == <<"(", "i", "f", " ", "0", ".", "0", " ", "(", "q", "u", "o", "t", "e", " ", "p", ")", " ", "(", "q", "u", "o", "t", "e", " ", "0", "1", ")", ")">>
\* (begin (define x 1) (define f (lambda () (set! x 2))) (f) x)
ProgSet == <<"(", "b", "e", "g", "i", "n", " ", "(", "d", "e", "f", "i", "n", "e", " ", "x", " ", "1", ")", " ", "(", "d", "e", "f", "i", "n", "e", " ", "f", " ", "(", "l", "a", "m", "b", "d", "a", " ", "(", ")", " ", "(", "s", "e", "t", "!", " ", "x", " ", "2", ")", ")", ")", " ", "(", "f", ")", " ", "x", ")">>
\* (begin (define w 1) ((lambda () (set! w (begin (define w 3) 4)))) w)
ProgSetOrder == <<"(", "b", "e", "g", "i", "n", " ", "(", "d", "e", "f", "i", "n", "e", " ", "w", " ", "1", ")", " ", "(", "(", "l", "a", "m", "b", "d", "a", " ", "(", ")", " ", "(", "s", "e", "t", "!", " ", "w", " ", "(", "b", "e", "g", "i", "n", " ", "(", "d", "e", "f", "i", "n", "e", " ", "w", " ", "3", ")", " ", "4", ")", ")", ")", ")", " ", "w", ")">>
\* (set! q 1)
ProgSetUnbound == <<"(", "s", "e", "t", "!", " ", "q", " ", "1", ")">>
\* (begin (define x 1) (define f (lambda () x)) ((lambda (x) (f)) 2))
ProgLexical == <<"(", "b", "e", "g", "i", "n", " ", "(", "d", "e", "f", "i", "n", "e", " ", "x", " ", "1", ")", " ", "(", "d", "e", "f", "i", "n", "e", " ", "f", " ", "(", "l", "a", "m", "b", "d", "a", " ", "(", ")", " ", "x", ")", ")", " ", "(", "(", "l", "a", "m", "b", "d", "a", " ", "(", "x", ")", " ", "(", "f", ")", ")", " ", "2", ")", ")">>
\* (begin (define x 1) ((lambda () (begin (define x 2) x))) x)
ProgShadow == <<"(", "b", "e", "g", "i", "n", " ", "(", "d", "e", "f", "i", "n", "e", " ", "x", " ", "1", ")", " ", "(", "(", "l", "a", "m", "b", "d", "a", " ", "(", ")", " ", "(", "b", "e", "g", "i", "n", " ", "(", "d", "e", "f", "i", "n", "e", " ", "x", " ", "2", ")", " ", "x", ")", ")", ")", " ", "x", ")">>
\* ((lambda (a b) a) 1)
ProgFewArgs == <<"(", "(", "l", "a", "m", "b", "d", "a", " ", "(", "a", " ", "b", ")", " ", "a", ")", " ", "1", ")">>
\* ((lambda (a b) b) 1)
ProgFewArgsUse == <<"(", "(", "l", "a", "m", "b", "d", "a", " ", "(", "a", " ", "b", ")", " ", "b", ")", " ", "1", ")">>
\* ((lambda (a) a) 1 2)
ProgManyArgs == <<"(", "(", "l", "a", "m", "b", "d", "a", " ", "(", "a", ")", " ", "a", ")", " ", "1", " ", "2", ")">>
\* u
ProgUnbound == <<"u">>
\* (begin (define a 1) (list a (begin (set! a 2) a) a))
ProgOrder == <<"(", "b", "e", "g", "i", "n", " ", "(", "d", "e", "f", "i", "n", "e", " ", "a", " ", "1", ")", " ", "(", "l", "i", "s", "t", " ", "a", " ", "(", "b", "e", "g", "i", "n", " ", "(", "s", "e", "t", "!", " ", "a", " ", "2", ")", " ", "a", ")", " ", "a", ")", ")">>
\* (quote (1 2 3))
ProgQuote == <<"(", "q", "u", "o", "t", "e", " ", "(", "1", " ", "2", " ", "3", ")", ")">>
\* ()
ProgEmpty == <<"(", ")">>
\* (1 2)
ProgNotCallable == <<"(", "1", " ", "2", ")">>
\* (>= 2 1)
ProgGE == <<"(", ">", "=", " ", "2", " ", "1", ")">>
\* (+ 1
ProgOpen == <<"(", "+", " ", "1">>
\* )
ProgClose == <<")">>
\* (if 1 2)
ProgBadIf == <<"(", "i", "f", " ", "1", " ", "2", ")">>

\* ((begin (define k 1) +) k 2)
ProgOperatorFirst == <<"(", "(", "b", "e", "g", "i", "n", " ", "(", "d", "e", "f", "i", "n", "e", " ", "k", " ", "1", ")", " ", "+", ")", " ", "k", " ", "2", ")">>

Programs == {ProgOperatorFirst, ProgRoundTrip, ProgIf, ProgIfEffect, ProgIfFloat, ProgSet, ProgSetOrder, ProgSetUnbound, ProgLexical, ProgShadow, ProgFewArgs, ProgFewArgsUse, ProgManyArgs, ProgUnbound, ProgOrder, ProgQuote, ProgEmpty, ProgNotCallable, ProgGE, ProgOpen, ProgClose, ProgBadIf}

(***************************************************************************)
(* eval (lines 201-226), one activation per call of eval.  An activation   *)
(* is [x, env, pc, vals, at]: the arguments, the place reached in the      *)
(* body, the values of the sub-expressions evaluated so far and the index  *)
(* of its entry in log.                                                    *)
(***************************************************************************)
Act(x, env, at) == [x |-> x, env |-> env, pc |-> "start", vals |-> <<>>, at |-> at]

top == stack[Len(stack)]

IsForm(x, kw) ==
    /\ x.t = "list" /\ x.xs # <<>>
    /\ x.xs[1].t = "sym" /\ x.xs[1].s = kw

SpecialForms == {"quote", "if", "define", "set!", "lambda"}

IsCall(x) ==
    /\ x.t = "list" /\ x.xs # <<>>
    /\ \A kw \in SpecialForms : ~IsForm(x, kw)

Entered == ctl.mode = "call" /\ stack # <<>>
Returned(pc) == ctl.mode = "ret" /\ stack # <<>> /\ top.pc = pc

\* an exception leaves eval: nothing in the module catches it
Raise(e) ==
    /\ out' = [exc |-> e]
    /\ ctl' = [mode |-> "crashed"]
    /\ UNCHANGED <<arg, tokens, heap, stack, log, nforms>>

\* return v from the innermost activation
Return(v) ==
    /\ stack' = SubSeq(stack, 1, Len(stack) - 1)
    /\ ctl' = [mode |-> "ret", val |-> v]
    /\ UNCHANGED <<arg, tokens, out, log, nforms>>

\* the innermost activation, now at pc with vals, calls eval(x, env)
Call(pc, vals, x, env) ==
    /\ stack' = Append([stack EXCEPT ![Len(stack)] = [@ EXCEPT !.pc = pc, !.vals = vals]],
                       Act(x, env, Len(log) + 1))
    /\ log' = Append(log, [x |-> x, env |-> env, d |-> Len(stack) + 1])
    /\ ctl' = [mode |-> "call"]
    /\ UNCHANGED <<arg, tokens, out, nforms>>

Init ==
    /\ arg = <<>>
    /\ tokens = <<>>
    /\ out = [exc |-> "pending"]
    /\ heap = <<global_env>>
    /\ stack = <<>>
    /\ ctl = Idle
    /\ log = <<>>
    /\ nforms = 0

\* eval(parse(program)) (lines 260, 144), env defaulting to global_env
Submit(program) ==
    /\ ctl = Idle
    /\ nforms < MaxForms
    /\ LET r == read_from_tokens(tokenize(program))
       IN  /\ arg' = program
           /\ tokens' = r.rest
           /\ nforms' = nforms + 1
           /\ heap' = heap
           /\ IF r.exc # ""
              THEN /\ out' = [exc |-> r.exc]
                   /\ ctl' = [mode |-> "crashed"]
                   /\ UNCHANGED <<stack, log>>
              ELSE /\ out' = [exc |-> "pending"]
                   /\ stack' = <<Act(r.exp, 1, 1)>>
                   /\ log' = <<[x |-> r.exp, env |-> 1, d |-> 1]>>
                   /\ ctl' = [mode |-> "call"]

\* lines 203-204: return env.find(x)[x]
EvalSymbol ==
    /\ Entered /\ top.x.t = "sym"
    /\ LET e == find(heap, top.env, top.x.s)
       IN  IF e = 0 THEN Raise("AttributeError") /\ heap' = heap
           ELSE Return(heap[e].vars[top.x.s]) /\ heap' = heap

\* lines 205-206: a constant literal
EvalConstant ==
    /\ Entered /\ top.x.t \notin {"sym", "list"}
    /\ Return(top.x) /\ heap' = heap

\* line 207 on the empty list: x[0] raises IndexError
EvalEmpty ==
    /\ Entered /\ top.x.t = "list" /\ top.x.xs = <<>>
    /\ Raise("IndexError") /\ heap' = heap

\* lines 207-209: (_, exp) = x; return exp
EvalQuote ==
    /\ Entered /\ IsForm(top.x, "quote")
    /\ heap' = heap
    /\ IF Len(top.x.xs) # 2 THEN Raise("ValueError") ELSE Return(top.x.xs[2])

\* lines 210-212: (_, test, conseq, alt) = x; eval(test, env)
EvalIf ==
    /\ Entered /\ IsForm(top.x, "if")
    /\ heap' = heap
    /\ IF Len(top.x.xs) # 4 THEN Raise("ValueError")
       ELSE Call("if_test", <<>>, top.x.xs[2], top.env)

\* line 212 with conseq and alt exchanged
BranchSwapped(xs, testval) == IF Truthy(testval) THEN xs[4] ELSE xs[3]

\* line 212: exp = (conseq if eval(test, env) else alt)
Branch(xs, testval) == IF Truthy(testval) THEN xs[3] ELSE xs[4]

\* lines 212-213: eval(exp, env)
IfBranch ==
    /\ Returned("if_test")
    /\ heap' = heap
    /\ Call("if_branch", <<ctl.val>>, Branch(top.x.xs, ctl.val), top.env)

\* line 213: return eval(exp, env)
IfReturn ==
    /\ Returned("if_branch")
    /\ Return(ctl.val) /\ heap' = heap

\* lines 214-216: (_, var, exp) = x; eval(exp, env)
EvalDefine ==
    /\ Entered /\ IsForm(top.x, "define")
    /\ heap' = heap
    /\ IF Len(top.x.xs) # 3 THEN Raise("ValueError")
       ELSE Call("define", <<>>, top.x.xs[3], top.env)

\* line 216 written as line 219: the Env that binds var if there is one
DefineTargetFind(h, env, var) == IF find(h, env, var) # 0 THEN find(h, env, var) ELSE env

\* line 216: the Env that env[var] = ... writes
DefineTarget(h, env, var) == env

\* line 216: env[var] = the value; eval returns None
DefineStore ==
    /\ Returned("define")
    /\ heap' = Store(heap, DefineTarget(heap, top.env, top.x.xs[2].s), top.x.xs[2].s, ctl.val)
    /\ Return(NoneVal)

\* lines 217-219: (_, var, exp) = x; the right-hand side eval(exp, env) is
\* evaluated before the target env.find(var)
EvalSet ==
    /\ Entered /\ IsForm(top.x, "set!")
    /\ heap' = heap
    /\ IF Len(top.x.xs) # 3 THEN Raise("ValueError")
       ELSE Call("set", <<>>, top.x.xs[3], top.env)

\* line 219 written as line 216: the current Env
SetTargetLocal(h, env, var) == env

\* line 219: the Env that env.find(var)[var] = ... writes
SetTarget(h, env, var) == find(h, env, var)

\* line 219: env.find(var)[var] = the value; eval returns None
SetStore ==
    /\ Returned("set")
    /\ LET e == SetTarget(heap, top.env, top.x.xs[2].s)
       IN  IF e = 0 THEN Raise("AttributeError") /\ heap' = heap
           ELSE /\ heap' = Store(heap, e, top.x.xs[2].s, ctl.val)
                /\ Return(NoneVal)

\* lines 220-222: (_, parms, body) = x; return Procedure(parms, body, env)
Procedure(parms, body, env) == [t |-> "proc", parms |-> parms, body |-> body, env |-> env]

EvalLambda ==
    /\ Entered /\ IsForm(top.x, "lambda")
    /\ heap' = heap
    /\ IF Len(top.x.xs) # 3 THEN Raise("ValueError")
       ELSE Return(Procedure(top.x.xs[2].xs, top.x.xs[3], top.env))

\* lines 223-224: proc = eval(x[0], env)
EvalCall ==
    /\ Entered /\ IsCall(top.x)
    /\ heap' = heap
    /\ Call("call", <<>>, top.x.xs[1], top.env)

\* line 225 cut short after the first argument
ElementsDoneEarly(xs, vals) == Len(vals) = Len(xs) \/ Len(vals) >= 2

\* lines 224-225: every element of x has its value
ElementsDone(xs, vals) == Len(vals) = Len(xs)

\* line 225: the next arg of x[1:]
CallNext ==
    /\ Returned("call")
    /\ ~ElementsDone(top.x.xs, Append(top.vals, ctl.val))
    /\ heap' = heap
    /\ Call("call", Append(top.vals, ctl.val), top.x.xs[Len(top.vals) + 2], top.env)

\* line 226 with a built-in: proc(*args)
ApplyBuiltin ==
    /\ Returned("call")
    /\ ElementsDone(top.x.xs, Append(top.vals, ctl.val))
    /\ LET vs == Append(top.vals, ctl.val)
           r == CallBuiltin(vs[1].name, Tail(vs))
       IN  /\ vs[1].t = "builtin"
           /\ heap' = heap
           /\ IF r.exc # "" THEN Raise(r.exc) ELSE Return(r.val)

\* line 226 with a value that is not callable
ApplyNotCallable ==
    /\ Returned("call")
    /\ ElementsDone(top.x.xs, Append(top.vals, ctl.val))
    /\ Append(top.vals, ctl.val)[1].t \notin {"builtin", "proc"}
    /\ Raise("TypeError") /\ heap' = heap

\* line 172 with the Env of the caller for self.env (dynamic scope)
CallOuterDynamic(proc, caller) == caller

\* line 172: the outer of the Env of a call is self.env
CallOuter(proc, caller) == proc.env

\* line 226 with a Procedure, lines 171-172:
\* eval(self.body, Env(self.parms, args, self.env))
ApplyProcedure ==
    /\ Returned("call")
    /\ ElementsDone(top.x.xs, Append(top.vals, ctl.val))
    /\ Len(heap) < MaxEnvs
    /\ LET vs == Append(top.vals, ctl.val)
       IN  /\ vs[1].t = "proc"
           /\ heap' = Append(heap, Env(vs[1].parms, Tail(vs), CallOuter(vs[1], top.env)))
           /\ Call("apply", vs, vs[1].body, Len(heap) + 1)

\* lines 172, 226: return what the body returned
ApplyReturn ==
    /\ Returned("apply")
    /\ Return(ctl.val) /\ heap' = heap

\* the outermost eval has returned (line 260, line 144)
Finish ==
    /\ ctl.mode = "ret" /\ stack = <<>>
    /\ out' = Ok(ctl.val)
    /\ ctl' = Idle
    /\ UNCHANGED <<arg, tokens, heap, stack, log, nforms>>

Next ==
    \/ \E program \in Programs : Submit(program)
    \/ EvalSymbol
    \/ EvalConstant
    \/ EvalEmpty
    \/ EvalQuote
    \/ EvalIf
    \/ IfBranch
    \/ IfReturn
    \/ EvalDefine
    \/ DefineStore
    \/ EvalSet
    \/ SetStore
    \/ EvalLambda
    \/ EvalCall
    \/ CallNext
    \/ ApplyBuiltin
    \/ ApplyNotCallable
    \/ ApplyProcedure
    \/ ApplyReturn
    \/ Finish

Spec == Init /\ [][Next]_vars

(***************************************************************************)
(* What the properties below speak of.                                     *)
(***************************************************************************)
\* the Envs of the chain of e, innermost first
RECURSIVE Chain(_, _)
Chain(h, e) == IF e = 0 THEN <<>> ELSE <<e>> \o Chain(h, h[e].outer)

Binds(h, e, var) == var \in DOMAIN h[e].vars

BoundInChain(h, e, var) == \E i \in 1..Len(Chain(h, e)) : Binds(h, Chain(h, e)[i], var)

\* the nearest Env of the chain of e that binds var
Nearest(h, e, var) ==
    LET c == Chain(h, e)
        i == CHOOSE i \in 1..Len(c) :
                 Binds(h, c[i], var) /\ \A j \in 1..(i - 1) : ~Binds(h, c[j], var)
    IN  c[i]

\* what looking var up from e gives
Lookup(h, e, var) ==
    IF BoundInChain(h, e, var)
    THEN [found |-> TRUE, val |-> h[Nearest(h, e, var)].vars[var]]
    ELSE [found |-> FALSE, val |-> NoneVal]

\* h2 is h1 but for the value of var in Env e
OnlyChanged(h1, h2, e, var) ==
    /\ Len(h2) = Len(h1)
    /\ \A i \in 1..Len(h1) :
          /\ h2[i].outer = h1[i].outer
          /\ DOMAIN h1[i].vars \subseteq DOMAIN h2[i].vars
          /\ DOMAIN h2[i].vars \subseteq DOMAIN h1[i].vars \cup (IF i = e THEN {var} ELSE {})
          /\ \A k \in DOMAIN h1[i].vars : (i # e \/ k # var) => h2[i].vars[k] = h1[i].vars[k]

\* the evals that the activation at depth d has called so far, in order
Kids(d) ==
    LET later == SubSeq(log, stack[d].at + 1, Len(log))
        mine == SelectSeq(later, LAMBDA en : en.d = d + 1)
    IN  [i \in 1..Len(mine) |-> [x |-> mine[i].x, env |-> mine[i].env]]

\* the innermost activation holds the values of all the elements of its call
AllValues == Append(top.vals, ctl.val)

\* the number of tokens of the first complete form of toks, 0 if there is none
Depth(toks, k) ==
    Cardinality({i \in 1..k : toks[i] = LP}) - Cardinality({i \in 1..k : toks[i] = RP})

FirstFormLen(toks) ==
    IF toks = <<>> \/ toks[1] = RP THEN 0
    ELSE IF toks[1] # LP THEN 1
    ELSE IF \E k \in 1..Len(toks) : Depth(toks, k) = 0
         THEN CHOOSE k \in 1..Len(toks) :
                  Depth(toks, k) = 0 /\ \A j \in 1..(k - 1) : Depth(toks, j) # 0
         ELSE 0

\* a list form is open when the tokens run out
Unclosed(toks) == toks # <<>> /\ toks[1] = LP /\ FirstFormLen(toks) = 0

\* an expression written back as its items: parentheses and atoms
RECURSIVE Flatten(_), FlattenAll(_)
Flatten(exp) ==
    IF exp.t = "list" THEN <<[t |-> "lp"]>> \o FlattenAll(exp.xs) \o <<[t |-> "rp"]>>
    ELSE <<exp>>

FlattenAll(xs) == IF xs = <<>> THEN <<>> ELSE Flatten(xs[1]) \o FlattenAll(Tail(xs))

Items(toks) ==
    [i \in 1..Len(toks) |->
        IF toks[i] = LP THEN [t |-> "lp"]
        ELSE IF toks[i] = RP THEN [t |-> "rp"]
        ELSE atom(toks[i])]

\* the names of the symbols of an expression
RECURSIVE SymbolsOf(_)
SymbolsOf(exp) ==
    IF exp.t = "sym" THEN {exp.s}
    ELSE IF exp.t = "list" THEN UNION {SymbolsOf(exp.xs[i]) : i \in 1..Len(exp.xs)}
    ELSE {}

BracketChars == {"(", ")", "<", ">"}

TokenShape(tok) ==
    \/ Len(tok) = 1 /\ tok[1] \in BracketChars
    \/ /\ tok # <<>>
       /\ \A i \in 1..Len(tok) : tok[i] \notin Whitespace \cup BracketChars

Finished == out.exc = ""

(***************************************************************************)
(* C1: a Procedure applied to a number of arguments that is not its number *)
(* of parameters fails with ArityError when the Env of the call is         *)
(* created, and its body is not evaluated.                                 *)
(***************************************************************************)
C1_ArityError ==
    [][(/\ Returned("call")
        /\ Len(AllValues) = Len(top.x.xs)
        /\ AllValues[1].t = "proc"
        /\ Len(AllValues[1].parms) # Len(AllValues) - 1)
       => (out'.exc = "ArityError" /\ stack' = stack /\ heap' = heap)]_vars

(***************************************************************************)
(* C2: evaluating a symbol that no Env of the chain binds, the root        *)
(* included, fails with UnboundVariableError and with nothing else.        *)
(***************************************************************************)
C2_UnboundVariableError ==
    [][(Entered /\ top.x.t = "sym" /\ ~BoundInChain(heap, top.env, top.x.s))
       => (out'.exc = "UnboundVariableError" /\ ctl'.mode = "crashed")]_vars

(***************************************************************************)
(* C3: (define name expr) in E writes name in E alone, once expr has its   *)
(* value: no other Env changes, no other name of E changes, looking name   *)
(* up from E gives the new value and from an ancestor of E what it gave    *)
(* before.  (begin (define x 5) x) is 5.                                   *)
(***************************************************************************)
C3_DefineLocal ==
    /\ [][Returned("define") =>
            LET e == top.env
                var == top.x.xs[2].s
            IN  /\ OnlyChanged(heap, heap', e, var)
                /\ Lookup(heap', e, var) = [found |-> TRUE, val |-> ctl.val]
                /\ \A i \in 2..Len(Chain(heap, e)) :
                      Lookup(heap', Chain(heap, e)[i], var) = Lookup(heap, Chain(heap, e)[i], var)]_vars
    /\ []((arg = ProgRoundTrip /\ Finished) => out.val = IntV(5))

\* define has run in the Env of a call on a name its outer Env binds too
C3_Witness ==
    /\ arg = ProgShadow /\ Finished /\ out.val = IntV(1)
    /\ \E e \in 2..Len(heap) :
          /\ Binds(heap, e, "x") /\ Binds(heap, heap[e].outer, "x")
          /\ heap[e].vars["x"] = IntV(2)
          /\ heap[heap[e].outer].vars["x"] = IntV(1)

(***************************************************************************)
(* C4: (set! name expr) in E, once expr has its value, writes name in the  *)
(* nearest Env of the chain of E that binds it and changes nothing else,   *)
(* adds name to no Env, and fails when no Env of the chain binds name.     *)
(* (define x 1) (define f (lambda () (set! x 2))) (f), and x is 2.         *)
(***************************************************************************)
C4_SetNearest ==
    /\ [][Returned("set") =>
            LET e == top.env
                var == top.x.xs[2].s
            IN  IF BoundInChain(heap, e, var)
                THEN /\ OnlyChanged(heap, heap', Nearest(heap, e, var), var)
                     /\ \A i \in 1..Len(heap) : DOMAIN heap'[i].vars = DOMAIN heap[i].vars
                     /\ heap'[Nearest(heap, e, var)].vars[var] = ctl.val
                     /\ ctl'.mode = "ret"
                ELSE heap' = heap /\ ctl'.mode = "crashed" /\ out'.exc # ""]_vars
    /\ []((arg = ProgSet /\ Finished) => (out.val = IntV(2) /\ heap[1].vars["x"] = IntV(2)))

\* set! has run in the body of f, whose Env does not bind x
C4_Witness ==
    /\ arg = ProgSet /\ Finished /\ heap[1].vars["x"] = IntV(2)
    /\ \E e \in 2..Len(heap) : heap[e].outer = 1 /\ ~Binds(heap, e, "x")

(***************************************************************************)
(* C5: a Procedure holds the Env its lambda was evaluated in; each         *)
(* application evaluates the body in a new Env whose outer is that Env,    *)
(* whatever Env the call is made from, so the free names of the body are   *)
(* those of the defining scope, not of the caller.  No Env is dropped or   *)
(* given another outer, so the chain a Procedure holds stays as it was.    *)
(***************************************************************************)
C5_LexicalScope ==
    /\ [][(Entered /\ IsForm(top.x, "lambda") /\ Len(top.x.xs) = 3) =>
            /\ ctl'.mode = "ret"
            /\ ctl'.val = [t |-> "proc", parms |-> top.x.xs[2].xs,
                           body |-> top.x.xs[3], env |-> top.env]]_vars
    /\ [][(/\ Returned("call")
           /\ Len(AllValues) = Len(top.x.xs)
           /\ AllValues[1].t = "proc") =>
            /\ Len(heap') = Len(heap) + 1
            /\ SubSeq(heap', 1, Len(heap)) = heap
            /\ heap'[Len(heap')].outer = AllValues[1].env
            /\ Len(stack') = Len(stack) + 1
            /\ stack'[Len(stack')].x = AllValues[1].body
            /\ stack'[Len(stack')].env = Len(heap')]_vars
    /\ [][/\ Len(heap') >= Len(heap)
          /\ \A e \in 1..Len(heap) : heap'[e].outer = heap[e].outer]_vars
    /\ []((arg = ProgLexical /\ Finished) => out.val = IntV(1))

\* f, defined in global_env, has been called from an Env that binds x to 2
C5_Witness ==
    /\ arg = ProgLexical /\ Finished /\ out.val = IntV(1)
    /\ \E e \in 2..Len(heap) : Binds(heap, e, "x") /\ heap[e].vars["x"] = IntV(2)

(***************************************************************************)
(* C6: (if test conseq alt) evaluates test once, then conseq when the      *)
(* value of test is true and alt when it is not, and never the other one:  *)
(* the evals an if has called are test alone, or test and the chosen       *)
(* branch.  (if (> 3 2) 1 2) is 1; the define of a branch not taken binds  *)
(* nothing.                                                                *)
(***************************************************************************)
C6_OneBranch ==
    /\ \A d \in 1..Len(stack) :
          LET a == stack[d]
              here(x) == [x |-> x, env |-> a.env]
          IN  (IsForm(a.x, "if") /\ Len(a.x.xs) = 4) =>
                  /\ a.pc \in {"start", "if_test", "if_branch"}
                  /\ a.pc = "start" => Kids(d) = <<>>
                  /\ a.pc = "if_test" => Kids(d) = <<here(a.x.xs[2])>>
                  /\ a.pc = "if_branch" =>
                        Kids(d) = <<here(a.x.xs[2]),
                                    here(IF Truthy(a.vals[1]) THEN a.x.xs[3] ELSE a.x.xs[4])>>
    /\ (arg = ProgIf /\ Finished) => out.val = IntV(1)
    /\ (arg = ProgIfFloat /\ Finished) => out.val = IntV(1)
    /\ \A e \in 1..Len(heap) : ~Binds(heap, e, "y")
    /\ (arg = ProgIfEffect /\ Finished) => (out.val = IntV(2) /\ Binds(heap, 1, "z"))

\* an if whose test was false is evaluating its alt, a define
C6_Witness ==
    /\ arg = ProgIfEffect
    /\ \E d \in 1..Len(stack) :
          /\ IsForm(stack[d].x, "if") /\ stack[d].pc = "if_branch"
          /\ ~Truthy(stack[d].vals[1])
          /\ Len(Kids(d)) = 2 /\ IsForm(Kids(d)[2].x, "define")

(***************************************************************************)
(* C7: the reader fails with SyntaxError when the tokens run out while a   *)
(* list form is open, and when the token to read is a ')'.                 *)
(***************************************************************************)
C7_SyntaxError ==
    (out.exc # "tokenized" /\ (Unclosed(arg) \/ (arg # <<>> /\ arg[1] = RP)))
        => out.exc = "SyntaxError"

(***************************************************************************)
(* C8: on tokens that begin with a complete form, read_from_tokens returns *)
(* the tree of that form, a list for '(' ... ')' and an atom otherwise,    *)
(* and removes the tokens of the form and no other: those that follow it   *)
(* stay, in their order.                                                   *)
(***************************************************************************)
C8_ReadsFirstForm ==
    (out.exc # "tokenized" /\ FirstFormLen(arg) > 0) =>
        LET k == FirstFormLen(arg)
        IN  /\ out.exc = ""
            /\ tokens = SubSeq(arg, k + 1, Len(arg))
            /\ Flatten(out.val) = Items(SubSeq(arg, 1, k))
            /\ (out.val.t = "list") <=> (arg[1] = LP)
            /\ arg[1] # LP => out.val = atom(arg[1])

\* a list form with a list in it has been read, and tokens follow it
C8_Witness ==
    /\ out.exc = ""
    /\ FirstFormLen(arg) > 3 /\ FirstFormLen(arg) < Len(arg)
    /\ \E i \in 1..Len(out.val.xs) : out.val.xs[i].t = "list"
    /\ tokens # <<>>

(***************************************************************************)
(* C9: in (f a1 ... an), f is evaluated first, then a1 ... an once each    *)
(* from left to right in the Env of the call, and the callable is applied  *)
(* only when all have their values; what an element defines or sets, the   *)
(* later elements see.                                                     *)
(***************************************************************************)
C9_LeftToRight ==
    /\ [](\A d \in 1..Len(stack) :
            LET a == stack[d]
            IN  IsCall(a.x) =>
                  /\ a.pc = "call" => Len(Kids(d)) <= Len(a.x.xs)
                  /\ a.pc = "apply" => Len(Kids(d)) = Len(a.x.xs) + 1
                  /\ \A i \in 1..Min(Len(Kids(d)), Len(a.x.xs)) :
                        Kids(d)[i] = [x |-> a.x.xs[i], env |-> a.env])
    /\ [][(/\ Returned("call")
           /\ ~(Len(stack') = Len(stack) + 1 /\ stack'[Len(stack)].pc = "call"))
          => Len(Kids(Len(stack))) = Len(top.x.xs)]_vars
    /\ []((arg = ProgOrder /\ Finished) => out.val = List(<<IntV(1), IntV(2), IntV(2)>>))
    /\ []((arg = ProgOperatorFirst /\ Finished) => out.val = IntV(3))

\* list has been applied to a, the value of a after the set! and a again
C9_Witness ==
    /\ arg = ProgOrder /\ Finished
    /\ out.val = List(<<IntV(1), IntV(2), IntV(2)>>)

(***************************************************************************)
(* C10: a token is one of ( ) < > or a non-empty string with no whitespace *)
(* and none of these four; the empty text has no token.  So no token is    *)
(* >= or <=, names that standard_env binds: ">=" is the tokens ">" and     *)
(* "=", and "(>= a b)" is read as the list of the four symbols > = a b.    *)
(***************************************************************************)
C10_TokenShape ==
    /\ {">=", "<="} \subseteq DOMAIN global_env.vars
    /\ out.exc = "tokenized" =>
          /\ \A i \in 1..Len(tokens) :
                TokenShape(tokens[i]) /\ Concat(tokens[i]) \notin {">=", "<="}
          /\ arg = <<>> => tokens = <<>>
    /\ Finished => SymbolsOf(out.val) \cap {">=", "<="} = {}
    /\ (arg = TextGE /\ out.exc \notin {"pending", "tokenized"}) =>
          out = Ok(List(<<Symbol(<<">">>), Symbol(<<"=">>), Symbol(<<"a">>), Symbol(<<"b">>)>>))

\* "(>= a b)" has been tokenized and read
C10_Witness ==
    /\ arg = TextGE /\ Finished
    /\ out.val.t = "list" /\ Len(out.val.xs) = 4
    /\ out.val.xs[1] = Symbol(<<">">>)

====
